---- MODULE Spec2Model ----
(***************************************************************************)
(* Model of the task scheduling core of YYS_GameHelper:                    *)
(*   core/scheduler.py   TaskContext, InterruptibleTask, TaskScheduler     *)
(*   core/hybrid_task.py HybridTask._run (control skeleton)                *)
(* The priority queue is Python's queue.PriorityQueue, i.e. a binary heap  *)
(* (heapq) of ((priority, execute_time), task) tuples.  Comparing two      *)
(* tuples with equal (priority, execute_time) and different task objects   *)
(* raises TypeError, because InterruptibleTask defines no ordering.        *)
(***************************************************************************)
EXTENDS Integers, Sequences, FiniteSets, TLC

\* ------------------------------------------------------------------ bounds
NumTasks == 3
MaxThreads == 2
MaxTime == 1
MaxDelay == 1
MaxSubmits == 3
MaxCalls == 2
TaskSubmits == 2
MaxTriggers == 2
TrigSubmits == 2
NumListeners == 4
MaxSubscribe == 2
MaxPublish == 2
MaxProcess == 2
MaxSetup == 3
MaxHandle == 2
MaxSaves == 2
MaxCheckpoints == 2
MaxIter == 2
MaxRequests == 2
MaxLegacyCalls == 5
MaxPauseCalls == 3

\* --------------------------------------------------------------- constants
None == -1
CRITICAL == 0
HIGH == 1
NORMAL == 2
LOW == 3

Tasks == 1..NumTasks
NoTask == 0
Threads == 1..MaxThreads
Delays == 0..MaxDelay
\* the cleanup task ids callers register triggers with
CleanupIds == 1..MaxTriggers

TaskState == {"pending", "running", "paused", "interrupted", "completed", "failed", "cancelled"}

\* The task population: task 1 is a plain InterruptibleTask subclass whose
\* work routine polls check_interruption, task 2 is a HybridTask, task 3 a
\* subclass whose routine never calls check_interruption.
Kind(t) == CASE t = 2 -> "hybrid" [] t = 3 -> "nocheck" [] OTHER -> "plain"

TaskPriority(t) == CASE t = 3 -> HIGH [] t = 4 -> LOW [] OTHER -> NORMAL

VARIABLES
    now,              \* time.time()
    task_queue,       \* TaskScheduler.task_queue: the heap array
    running_tasks,    \* TaskScheduler.running_tasks (keys; ids are unique per task)
    task_contexts,    \* TaskScheduler.task_contexts (keys; value is the task's context)
    running,          \* TaskScheduler._running
    scheduler_thread, \* TaskScheduler._scheduler_thread (0 = None)
    joining,          \* a caller of stop() is inside join(timeout=5)
    thr,              \* the dispatch-loop threads: position and locals
    context,          \* InterruptibleTask.context of every task
    should_stop,      \* InterruptibleTask._should_stop
    should_pause,     \* InterruptibleTask._should_pause
    resource_triggers,\* number of registered trigger predicates
    cleanup_tasks,    \* TaskScheduler.cleanup_tasks
    submits_left,     \* submit_task calls the callers of this run still make
    calls_left,       \* pause / resume / stop requests the callers of this run still make
    event_bus,        \* EventBus: listeners, event_queue
    delivery,         \* the publish calls in progress (innermost last): their loop positions
    calls,            \* the callback invocations made so far: <<listener, event id>>
    batches,          \* the lists process_events has returned so far
    state_machine,    \* StateMachine: the states, the transition table, the handlers
    sm_obs,           \* the last handle_event call: its result and the handlers it invoked
    ckpt,             \* one TaskContext with its checkpoints: progress, data, checkpoints
    dicts,            \* the dict objects of that context: the live data mapping, the copies
    hrun,             \* one HybridTask inside execute(): position in _run, signals, hooks invoked
    legacy            \* one legacy Task (core/task.py): its flags, status and retry count

vars == <<now, task_queue, running_tasks, task_contexts, running, scheduler_thread,
          joining, thr, context, should_stop, should_pause, resource_triggers,
          cleanup_tasks, submits_left, calls_left, event_bus, delivery, calls, batches,
          state_machine, sm_obs, ckpt, dicts, hrun, legacy>>

sched_vars == <<now, task_queue, running_tasks, task_contexts, running, scheduler_thread,
                joining, thr, context, should_stop, should_pause, resource_triggers,
                cleanup_tasks, submits_left, calls_left>>
bus_vars == <<event_bus, delivery, calls, batches>>
sm_vars == <<state_machine, sm_obs>>
ckpt_vars == <<ckpt, dicts>>
hyb_vars == <<bus_vars, sm_vars, ckpt_vars, hrun, legacy>>

queue_vars == <<task_queue, task_contexts, submits_left>>
ctl_vars == <<running, scheduler_thread, joining>>
trig_vars == <<resource_triggers, cleanup_tasks>>
task_vars == <<context, should_stop, should_pause>>

\* ------------------------------------------------------------ TaskContext
TaskContext == [state |-> "pending", progress |-> 0, start_time |-> None,
                pause_time |-> None, resume_time |-> None]

\* errors: the trigger errors logged by the check_resource_triggers call of
\* the iteration the thread is in
IdleThread == [pc |-> "dead", task |-> NoTask, time |-> None, result |-> "unset",
               errors |-> 0]

\* ------------------------------------------------ heapq / PriorityQueue
Entry(t, tm) == [pri |-> TaskPriority(t), time |-> tm, task |-> t]

\* item1 < item2 on ((priority, execute_time), task) tuples
TupleLess(a, b) ==
    IF a.pri < b.pri \/ (a.pri = b.pri /\ a.time < b.time) THEN "lt"
    ELSE IF a.pri = b.pri /\ a.time = b.time /\ a.task # b.task THEN "err"
    ELSE "ge"

Swap(h, i, j) == [h EXCEPT ![i] = h[j], ![j] = h[i]]

RECURSIVE siftdown(_, _)
siftdown(h, pos) ==
    IF pos <= 1 THEN [heap |-> h, err |-> FALSE]
    ELSE LET parentpos == pos \div 2
             cmp == TupleLess(h[pos], h[parentpos])
         IN  IF cmp = "err" THEN [heap |-> h, err |-> TRUE]
             ELSE IF cmp = "ge" THEN [heap |-> h, err |-> FALSE]
             ELSE siftdown(Swap(h, pos, parentpos), parentpos)

RECURSIVE siftup(_, _)
siftup(h, pos) ==
    IF 2 * pos > Len(h) THEN siftdown(h, pos)
    ELSE LET left == 2 * pos
             cmp == IF left + 1 <= Len(h) THEN TupleLess(h[left], h[left + 1]) ELSE "lt"
             childpos == IF cmp = "lt" THEN left ELSE left + 1
         IN  IF cmp = "err" THEN [heap |-> h, err |-> TRUE]
             ELSE siftup(Swap(h, pos, childpos), childpos)

heappush(h, item) == siftdown(Append(h, item), Len(h) + 1)

heappop(h) ==
    LET n == Len(h)
        lastelt == h[n]
        rest == SubSeq(h, 1, n - 1)
    IN  IF n = 1 THEN [heap |-> rest, err |-> FALSE, item |-> lastelt]
        ELSE LET r == siftup([rest EXCEPT ![1] = lastelt], 1)
             IN  [heap |-> r.heap, err |-> r.err, item |-> h[1]]

\* ---------------------------------------------------------------- EventBus
\* the event types the callers of the model use
EventTypes == {"BATTLE_ENDED", "INVENTORY_FULL"}

\* the callbacks: what each does when it is invoked with an event
\*   log      returns normally (KekkaiToppaHybridTask._on_battle_ended)
\*   raise    raises an ordinary error
\*   unsub    unsubscribes itself from the event's type
\*   publish  publishes a follow-up event of the same type for every event
\*            that did not come from a callback
Listeners == 1..NumListeners

Behaviour(l) == CASE l = 1 -> "log" [] l = 2 -> "raise" [] l = 3 -> "unsub" [] OTHER -> "publish"

\* EventBus.__init__
EventBus == [listeners |-> [ty \in EventTypes |-> <<>>], event_queue |-> <<>>]

\* flattening of a list of lists
RECURSIVE Flatten(_)
Flatten(ss) == IF ss = <<>> THEN <<>> ELSE Head(ss) \o Flatten(Tail(ss))

\* the number of EventData objects published so far
Published == Len(Flatten(batches)) + Len(event_bus.event_queue)

\* EventData(event_type, ..., source); id stands for the object's identity
EventData(ty, src) == [event_type |-> ty, id |-> Published + 1, source |-> src]

\* list.remove(x): the first occurrence
RECURSIVE ListRemove(_, _)
ListRemove(q, x) ==
    IF q = <<>> THEN <<>>
    ELSE IF Head(q) = x THEN Tail(q) ELSE <<Head(q)>> \o ListRemove(Tail(q), x)

InList(q, x) == \E k \in DOMAIN q : q[k] = x

\* subscribe(event_type, listener)
subscribe(bus, ty, l) == [bus EXCEPT !.listeners[ty] = Append(@, l)]

\* unsubscribe(event_type, listener)
unsubscribe(bus, ty, l) ==
    IF InList(bus.listeners[ty], l) THEN [bus EXCEPT !.listeners[ty] = ListRemove(@, l)]
    ELSE bus

\* publish(event_data), first statement: the append
publish_append(bus, e) == [bus EXCEPT !.event_queue = Append(@, e)]

\* process_events() returning the copy without clearing the queue
process_events_keeps_queue(bus) == [events |-> bus.event_queue, bus |-> bus]

\* process_events(): the list returned and the bus after the call
process_events(bus) ==
    [events |-> bus.event_queue, bus |-> [bus EXCEPT !.event_queue = <<>>]]

\* a publish call in progress: its event, the position k of its for loop over
\* the live listener list, the subscribers at the call and those invoked so far
Frame(e) == [event |-> e, k |-> 0, subs |-> event_bus.listeners[e.event_type], invoked |-> <<>>]

Top == delivery[Len(delivery)]

SetTop(f) == [delivery EXCEPT ![Len(delivery)] = f]

\* callers take the bus lock only when no publish is in progress
Subscribe(ty, l) ==
    /\ delivery = <<>>
    /\ Len(event_bus.listeners["BATTLE_ENDED"]) + Len(event_bus.listeners["INVENTORY_FULL"])
          < MaxSubscribe
    /\ event_bus' = subscribe(event_bus, ty, l)
    /\ UNCHANGED <<sched_vars, legacy, ckpt_vars, hrun, sm_vars, delivery, calls, batches>>

Unsubscribe(ty, l) ==
    /\ delivery = <<>>
    /\ event_bus.listeners[ty] # <<>>
    /\ event_bus' = unsubscribe(event_bus, ty, l)
    /\ UNCHANGED <<sched_vars, legacy, ckpt_vars, hrun, sm_vars, delivery, calls, batches>>

\* publish(event_data) called from outside a callback: append, start the loop
Publish(ty) ==
    /\ delivery = <<>>
    /\ Published < MaxPublish
    /\ LET e == EventData(ty, "caller")
       IN  /\ event_bus' = publish_append(event_bus, e)
           /\ delivery' = <<Frame(e)>>
    /\ UNCHANGED <<sched_vars, legacy, ckpt_vars, hrun, sm_vars, calls, batches>>

\* a callback's error leaving publish instead of being caught in the loop
invoke_raise_propagates(l, e, d) ==
    CASE Behaviour(l) = "raise" ->
           [bus |-> event_bus, delivery |-> SubSeq(d, 1, Len(d) - 1)]
      [] Behaviour(l) = "unsub" ->
           [bus |-> unsubscribe(event_bus, e.event_type, l), delivery |-> d]
      [] Behaviour(l) = "publish" /\ e.source = "caller" /\ Published < MaxPublish ->
           LET e2 == EventData(e.event_type, "callback")
           IN  [bus |-> publish_append(event_bus, e2), delivery |-> Append(d, Frame(e2))]
      [] OTHER -> [bus |-> event_bus, delivery |-> d]

\* what invoking callback l with event e does to the bus and the calls in progress
\* (d: the calls in progress with this one's loop position already advanced)
invoke(l, e, d) ==
    CASE Behaviour(l) = "unsub" ->
           [bus |-> unsubscribe(event_bus, e.event_type, l), delivery |-> d]
      [] Behaviour(l) = "publish" /\ e.source = "caller" /\ Published < MaxPublish ->
           LET e2 == EventData(e.event_type, "callback")
           IN  [bus |-> publish_append(event_bus, e2), delivery |-> Append(d, Frame(e2))]
      [] OTHER -> [bus |-> event_bus, delivery |-> d]

\* publish, one round of "for listener in self.listeners[event_type]": the
\* callback is invoked inside try / except Exception, so a raise is swallowed
Deliver ==
    /\ delivery # <<>>
    /\ Top.k < Len(event_bus.listeners[Top.event.event_type])
    /\ LET f == Top
           l == event_bus.listeners[f.event.event_type][f.k + 1]
           r == invoke(l, f.event, SetTop([f EXCEPT !.k = @ + 1, !.invoked = Append(@, l)]))
       IN  /\ calls' = Append(calls, <<l, f.event.id>>)
           /\ event_bus' = r.bus
           /\ delivery' = r.delivery
    /\ UNCHANGED <<sched_vars, legacy, ckpt_vars, hrun, sm_vars, batches>>

\* publish returns: the for loop is exhausted
PublishReturn ==
    /\ delivery # <<>>
    /\ Top.k >= Len(event_bus.listeners[Top.event.event_type])
    /\ delivery' = SubSeq(delivery, 1, Len(delivery) - 1)
    /\ UNCHANGED <<sched_vars, legacy, ckpt_vars, hrun, sm_vars, event_bus, calls, batches>>

\* process_events()
ProcessEvents ==
    /\ delivery = <<>>
    /\ Len(batches) < MaxProcess
    /\ batches' = Append(batches, process_events(event_bus).events)
    /\ event_bus' = process_events(event_bus).bus
    /\ UNCHANGED <<sched_vars, legacy, ckpt_vars, hrun, sm_vars, delivery, calls>>

BusInit ==
    /\ event_bus = EventBus
    /\ delivery = <<>>
    /\ calls = <<>>
    /\ batches = <<>>

\* ------------------------------------------------------------ StateMachine
PageState == {"UNKNOWN", "MAIN_MENU"}

TaskEvent == {"PAGE_CHANGED", "BATTLE_STARTED"}

\* previous_state = None; a key that is not in a dict
NoState == "None"

Absent == "absent"

\* what a registered handler does when it is invoked
HandlerKinds == {"ok", "raise"}

\* StateMachine.__init__(initial_state)
StateMachine ==
    [current_state |-> "UNKNOWN",
     previous_state |-> NoState,
     transitions |-> [key \in PageState \X TaskEvent |-> NoState],
     state_handlers |-> [st \in PageState |-> Absent],
     transition_handlers |-> [key \in PageState \X PageState |-> Absent]]

add_transition(sm, from, ev, to) == [sm EXCEPT !.transitions[<<from, ev>>] = to]

add_state_handler(sm, st, h) == [sm EXCEPT !.state_handlers[st] = h]

add_transition_handler(sm, from, to, h) ==
    [sm EXCEPT !.transition_handlers[<<from, to>>] = h]

\* handle_event() recording the current state as previous for an event without entry
handle_event_records_unmatched(sm, ev) ==
    LET old_state == sm.current_state
        new_state == sm.transitions[<<old_state, ev>>]
    IN  IF new_state = NoState
        THEN [sm |-> [sm EXCEPT !.previous_state = old_state], result |-> "False", invoked |-> <<>>]
        ELSE LET transition_handler == sm.transition_handlers[<<old_state, new_state>>]
                 state_handler == sm.state_handlers[new_state]
                 first == IF transition_handler = Absent THEN <<>> ELSE <<"transition">>
                 committed == [sm EXCEPT !.previous_state = old_state,
                                         !.current_state = new_state]
                 invoked == IF state_handler = Absent THEN first ELSE Append(first, "state")
             IN  IF transition_handler = "raise"
                 THEN [sm |-> sm, result |-> "False", invoked |-> first]
                 ELSE [sm |-> committed, result |-> "True", invoked |-> invoked]

\* handle_event() going on with the transition after its transition handler raised
handle_event_ignores_transition_error(sm, ev) ==
    LET old_state == sm.current_state
        new_state == sm.transitions[<<old_state, ev>>]
    IN  IF new_state = NoState
        THEN [sm |-> sm, result |-> "False", invoked |-> <<>>]
        ELSE LET transition_handler == sm.transition_handlers[<<old_state, new_state>>]
                 state_handler == sm.state_handlers[new_state]
                 first == IF transition_handler = Absent THEN <<>> ELSE <<"transition">>
                 committed == [sm EXCEPT !.previous_state = old_state,
                                         !.current_state = new_state]
                 invoked == IF state_handler = Absent THEN first ELSE Append(first, "state")
             IN  IF FALSE
                 THEN [sm |-> sm, result |-> "False", invoked |-> first]
                 ELSE [sm |-> committed, result |-> "True", invoked |-> invoked]

\* handle_event() undoing the transition when the entry handler raises
handle_event_reverts_on_entry_error(sm, ev) ==
    LET old_state == sm.current_state
        new_state == sm.transitions[<<old_state, ev>>]
    IN  IF new_state = NoState
        THEN [sm |-> sm, result |-> "False", invoked |-> <<>>]
        ELSE LET transition_handler == sm.transition_handlers[<<old_state, new_state>>]
                 state_handler == sm.state_handlers[new_state]
                 first == IF transition_handler = Absent THEN <<>> ELSE <<"transition">>
                 committed == [sm EXCEPT !.previous_state = old_state,
                                         !.current_state = new_state]
                 invoked == IF state_handler = Absent THEN first ELSE Append(first, "state")
             IN  IF transition_handler = "raise"
                 THEN [sm |-> sm, result |-> "False", invoked |-> first]
                 ELSE IF state_handler = "raise"
                      THEN [sm |-> sm, result |-> "False", invoked |-> invoked]
                      ELSE [sm |-> committed, result |-> "True", invoked |-> invoked]

\* handle_event() committing the new state without recording the old one
handle_event_keeps_previous(sm, ev) ==
    LET old_state == sm.current_state
        new_state == sm.transitions[<<old_state, ev>>]
    IN  IF new_state = NoState
        THEN [sm |-> sm, result |-> "False", invoked |-> <<>>]
        ELSE LET transition_handler == sm.transition_handlers[<<old_state, new_state>>]
                 state_handler == sm.state_handlers[new_state]
                 first == IF transition_handler = Absent THEN <<>> ELSE <<"transition">>
             IN  IF transition_handler = "raise"
                 THEN [sm |-> sm, result |-> "False", invoked |-> first]
                 ELSE [sm |-> [sm EXCEPT !.current_state = new_state],
                       result |-> "True",
                       invoked |-> IF state_handler = Absent THEN first
                                   ELSE Append(first, "state")]

\* handle_event(event): the machine after the call, the value returned and
\* the handlers invoked, in order
handle_event(sm, ev) ==
    LET old_state == sm.current_state
        new_state == sm.transitions[<<old_state, ev>>]
    IN  IF new_state = NoState
        THEN [sm |-> sm, result |-> "False", invoked |-> <<>>]
        ELSE LET transition_handler == sm.transition_handlers[<<old_state, new_state>>]
                 state_handler == sm.state_handlers[new_state]
                 first == IF transition_handler = Absent THEN <<>> ELSE <<"transition">>
             IN  IF transition_handler = "raise"
                 THEN [sm |-> sm, result |-> "False", invoked |-> first]
                 ELSE [sm |-> [sm EXCEPT !.previous_state = old_state,
                                         !.current_state = new_state],
                       result |-> "True",
                       invoked |-> IF state_handler = Absent THEN first
                                   ELSE Append(first, "state")]

\* can_transition(event)
can_transition(sm, ev) == sm.transitions[<<sm.current_state, ev>>] # NoState

\* the registration calls made so far are counted in sm_obs.setups, the
\* handle_event calls in sm_obs.handled; sm_obs.last is the (current state,
\* table entry) pair read at the start of the last handle_event call that
\* returned True, sm_obs.can the value of the last can_transition call
AddTransition(from, ev, to) ==
    /\ sm_obs.setups < MaxSetup
    /\ state_machine' = add_transition(state_machine, from, ev, to)
    /\ sm_obs' = [sm_obs EXCEPT !.setups = @ + 1]
    /\ UNCHANGED <<sched_vars, legacy, ckpt_vars, hrun, bus_vars>>

AddStateHandler(st, h) ==
    /\ sm_obs.setups < MaxSetup
    /\ state_machine' = add_state_handler(state_machine, st, h)
    /\ sm_obs' = [sm_obs EXCEPT !.setups = @ + 1]
    /\ UNCHANGED <<sched_vars, legacy, ckpt_vars, hrun, bus_vars>>

AddTransitionHandler(from, to, h) ==
    /\ sm_obs.setups < MaxSetup
    /\ state_machine' = add_transition_handler(state_machine, from, to, h)
    /\ sm_obs' = [sm_obs EXCEPT !.setups = @ + 1]
    /\ UNCHANGED <<sched_vars, legacy, ckpt_vars, hrun, bus_vars>>

HandleEvent(ev) ==
    /\ sm_obs.handled < MaxHandle
    /\ LET r == handle_event(state_machine, ev)
       IN  /\ state_machine' = r.sm
           /\ sm_obs' = [sm_obs EXCEPT
                  !.handled = @ + 1, !.result = r.result, !.invoked = r.invoked,
                  !.last = IF r.result = "True"
                           THEN <<state_machine.current_state,
                                  state_machine.transitions[<<state_machine.current_state, ev>>]>>
                           ELSE @]
    /\ UNCHANGED <<sched_vars, legacy, ckpt_vars, hrun, bus_vars>>

CanTransition(ev) ==
    /\ sm_obs' = [sm_obs EXCEPT !.can = IF can_transition(state_machine, ev) THEN "True"
                                        ELSE "False"]
    /\ UNCHANGED <<sched_vars, legacy, ckpt_vars, hrun, bus_vars, state_machine>>

SmInit ==
    /\ state_machine = StateMachine
    /\ sm_obs = [setups |-> 0, handled |-> 0, result |-> "unset", invoked |-> <<>>,
                 last |-> <<>>, can |-> "unset"]

\* ------------------------------------------- TaskContext, checkpoints
Keys == {"k", "j"}

Values == {"v", "w"}

\* the progress values save_progress is called with (tenths)
Progress == {0, 5, 10}

CheckpointNames == {"a", "b"}

\* a dict: every key mapped to its value, or Absent
Dicts == [Keys -> Values \cup {Absent}]

EmptyDict == [key \in Keys |-> Absent]

\* the dicts callers pass: empty, or with one item
SmallDicts == {d \in Dicts : Cardinality({key \in Keys : d[key] # Absent}) <= 1}

\* the argument data = None of save_progress
NoData == [key \in Keys |-> "None"]

\* the data argument of save_checkpoint: the live mapping of the context
\* itself (self.context.data), or another dict with the given items
DataArgs == [live : {TRUE}, items : {EmptyDict}] \cup [live : {FALSE}, items : SmallDicts]

\* dict.update(other)
update(d, other) == [key \in Keys |-> IF other[key] # Absent THEN other[key] ELSE d[key]]

\* the dict a reference stands for: 0 is context.data, n the n-th copy
Deref(ref) == IF ref = 0 THEN dicts.live ELSE dicts.copies[ref]

\* save_progress(progress, data) on a context with data: data is None or a dict
save_progress_data(c, live, p, data) ==
    [ckpt |-> [c EXCEPT !.progress = p],
     live |-> IF data # NoData /\ data # EmptyDict THEN update(live, data) ELSE live]

\* save_checkpoint() storing the dict it was given
save_checkpoint_by_reference(c, ds, name, data) ==
    LET given == IF data.live THEN ds.live ELSE data.items
        ref == IF data.live THEN 0 ELSE Len(ds.copies) + 1
    IN  [ckpt |-> [c EXCEPT !.checkpoints =
                      Append(@, [name |-> name, timestamp |-> now,
                                 progress |-> c.progress, data |-> ref])],
         dicts |-> IF data.live THEN ds
                   ELSE [ds EXCEPT !.copies = Append(@, given)]]

\* save_checkpoint(name, data): data.copy() is a new dict object with the
\* same items
save_checkpoint(c, ds, name, data) ==
    LET given == IF data.live THEN ds.live ELSE data.items
        copy == Len(ds.copies) + 1
    IN  [ckpt |-> [c EXCEPT !.checkpoints =
                      Append(@, [name |-> name, timestamp |-> now,
                                 progress |-> c.progress, data |-> copy])],
         dicts |-> [ds EXCEPT !.copies = Append(@, given)]]

\* get_latest_checkpoint(): the index of the record returned, 0 for None
get_latest_checkpoint(c) == IF c.checkpoints # <<>> THEN Len(c.checkpoints) ELSE 0

\* ckpt.saves counts the save_progress calls made, ckpt.latest is what the
\* last get_latest_checkpoint call returned
SaveProgress(p, data) ==
    /\ ckpt.saves < MaxSaves
    /\ LET r == save_progress_data(ckpt, dicts.live, p, data)
       IN  /\ ckpt' = [r.ckpt EXCEPT !.saves = @ + 1]
           /\ dicts' = [dicts EXCEPT !.live = r.live]
    /\ UNCHANGED <<sched_vars, legacy, hrun, bus_vars, sm_vars>>

SaveCheckpoint(name, data) ==
    /\ Len(ckpt.checkpoints) < MaxCheckpoints
    /\ LET r == save_checkpoint(ckpt, dicts, name, data)
       IN  /\ ckpt' = r.ckpt
           /\ dicts' = r.dicts
    /\ UNCHANGED <<sched_vars, legacy, hrun, bus_vars, sm_vars>>

GetLatestCheckpoint ==
    /\ ckpt' = [ckpt EXCEPT !.latest = get_latest_checkpoint(ckpt)]
    /\ UNCHANGED <<sched_vars, legacy, hrun, bus_vars, sm_vars, dicts>>

\* TaskContext(...): progress 0.0, data {}, checkpoints []
CkptInit ==
    /\ ckpt = [progress |-> 0, checkpoints |-> <<>>, saves |-> 0, latest |-> None]
    /\ dicts = [live |-> EmptyDict, copies |-> <<>>]

\* ------------------------------------------------- HybridTask._run
\* HybridTask as execute() finds it: nothing requested, state PENDING;
\* moves counts the transitions the state machine has taken in the current
\* iteration
HybridTask ==
    [pc |-> "new", stop |-> FALSE, pause |-> FALSE, state |-> "pending", progress |-> 0,
     iter |-> 0, hooks |-> <<>>, exits |-> <<>>, cause |-> "none", requests |-> 0,
     moves |-> 0]

\* the frame of the steps of _run that touch neither the bus nor the machine
HRunFrame == UNCHANGED <<sched_vars, legacy, ckpt_vars, bus_vars, sm_vars>>

\* the for loop over the replayed events: handle_event(event.event_type, event);
\* the machine after the loop and the number of calls that returned True
RECURSIVE handle_events(_, _)
handle_events(sm, events) ==
    IF events = <<>> THEN [sm |-> sm, moves |-> 0]
    ELSE LET r == IF Head(events).event_type \in TaskEvent
                  THEN handle_event(sm, Head(events).event_type)
                  ELSE [sm |-> sm, result |-> "False", invoked |-> <<>>]
             rest == handle_events(r.sm, Tail(events))
         IN  [sm |-> rest.sm, moves |-> rest.moves + (IF r.result = "True" THEN 1 ELSE 0)]

\* an error of the iteration leaving _run without the cleanup
except_propagates(h, bus) ==
    [hrun |-> [h EXCEPT !.pc = "done", !.cause = "error", !.state = "failed"],
     bus |-> bus]

\* except Exception: publish ERROR_OCCURRED (no callback is subscribed to
\* it), break
except_break(h, bus) ==
    [hrun |-> [h EXCEPT !.pc = "cleanup", !.cause = "error"],
     bus |-> publish_append(bus, EventData("ERROR_OCCURRED", "task"))]

\* execute(): RUNNING; _run: _initialize()
HRunStart ==
    /\ hrun.pc = "new"
    /\ hrun' = [hrun EXCEPT !.pc = "while", !.state = "running"]
    /\ HRunFrame

\* while not self._should_stop.is_set(): the next iteration, or the exit
HRunWhile ==
    /\ hrun.pc = "while"
    /\ IF hrun.stop
       THEN hrun' = [hrun EXCEPT !.pc = "cleanup", !.cause = "stop"]
       ELSE /\ hrun.iter < MaxIter
            /\ hrun' = [hrun EXCEPT !.pc = "check", !.iter = @ + 1, !.hooks = <<>>,
                                    !.moves = 0]
    /\ HRunFrame

\* self.check_interruption(): stop raises InterruptedException, which the
\* except Exception of the loop catches; pause enters the wait
HRunCheck ==
    /\ hrun.pc = "check"
    /\ LET h == [hrun EXCEPT !.hooks = Append(@, "check")]
       IN  IF h.stop
           THEN /\ hrun' = except_break(h, event_bus).hrun
                /\ event_bus' = except_break(h, event_bus).bus
           ELSE /\ hrun' = IF h.pause THEN [h EXCEPT !.pc = "wait", !.state = "paused"]
                           ELSE [h EXCEPT !.pc = "detect"]
                /\ UNCHANGED event_bus
    /\ UNCHANGED <<sched_vars, legacy, ckpt_vars, sm_vars, delivery, calls, batches>>

\* check_interruption(): the wait ends when pause is clear (resume) or stop
\* is set (raise)
HRunWait ==
    /\ hrun.pc = "wait"
    /\ ~(hrun.pause /\ ~hrun.stop)
    /\ IF hrun.stop
       THEN /\ hrun' = except_break(hrun, event_bus).hrun
            /\ event_bus' = except_break(hrun, event_bus).bus
       ELSE /\ hrun' = [hrun EXCEPT !.pc = "detect", !.pause = FALSE, !.state = "running"]
            /\ UNCHANGED event_bus
    /\ UNCHANGED <<sched_vars, legacy, ckpt_vars, sm_vars, delivery, calls, batches>>

\* detect_current_page(); on a page other than the current state: publish
\* PAGE_CHANGED (no callback is subscribed to it) and handle it directly
HRunDetect(page) ==
    /\ hrun.pc = "detect"
    /\ IF page # state_machine.current_state
       THEN LET r == handle_event(state_machine, "PAGE_CHANGED")
            IN  /\ event_bus' = publish_append(event_bus, EventData("PAGE_CHANGED", "task"))
                /\ state_machine' = r.sm
                /\ hrun' = [hrun EXCEPT !.pc = "process", !.hooks = Append(@, "detect"),
                                        !.moves = @ + (IF r.result = "True" THEN 1 ELSE 0)]
       ELSE /\ hrun' = [hrun EXCEPT !.pc = "process", !.hooks = Append(@, "detect")]
            /\ UNCHANGED <<event_bus, state_machine>>
    /\ UNCHANGED <<sched_vars, legacy, ckpt_vars, sm_obs, delivery, calls, batches>>

\* events = process_events(); for event in events: handle_event(...)
HRunProcess ==
    /\ hrun.pc = "process"
    /\ LET r == handle_events(state_machine, process_events(event_bus).events)
       IN  /\ state_machine' = r.sm
           /\ hrun' = [hrun EXCEPT !.pc = "logic", !.moves = @ + r.moves]
    /\ batches' = Append(batches, process_events(event_bus).events)
    /\ event_bus' = process_events(event_bus).bus
    /\ UNCHANGED <<sched_vars, legacy, ckpt_vars, sm_obs, delivery, calls>>

\* _execute_state_logic(): returns or raises
HRunLogic(outcome) ==
    /\ hrun.pc = "logic"
    /\ LET h == [hrun EXCEPT !.hooks = Append(@, "logic")]
       IN  IF outcome = "raises"
           THEN /\ hrun' = except_break(h, event_bus).hrun
                /\ event_bus' = except_break(h, event_bus).bus
           ELSE /\ hrun' = [h EXCEPT !.pc = "completion"]
                /\ UNCHANGED event_bus
    /\ UNCHANGED <<sched_vars, legacy, ckpt_vars, sm_vars, delivery, calls, batches>>

\* if self._check_completion(): break; else sleep and go round
HRunCompletion(outcome) ==
    /\ hrun.pc = "completion"
    /\ LET h == [hrun EXCEPT !.hooks = Append(@, "completion")]
       IN  IF outcome = "raises"
           THEN /\ hrun' = except_break(h, event_bus).hrun
                /\ event_bus' = except_break(h, event_bus).bus
           ELSE /\ hrun' = IF outcome = "true" THEN [h EXCEPT !.pc = "cleanup", !.cause = "completion"]
                           ELSE [h EXCEPT !.pc = "while"]
                /\ UNCHANGED event_bus
    /\ UNCHANGED <<sched_vars, legacy, ckpt_vars, sm_vars, delivery, calls, batches>>

\* self._cleanup()
HRunCleanup ==
    /\ hrun.pc = "cleanup"
    /\ hrun' = [hrun EXCEPT !.pc = "result", !.exits = Append(@, "cleanup")]
    /\ HRunFrame

\* _run re-raising the error of the iteration after the cleanup, so that
\* execute reports FAILED
HRunResultReraises ==
    /\ hrun.pc = "result"
    /\ hrun' = IF hrun.cause = "error"
               THEN [hrun EXCEPT !.pc = "done", !.exits = Append(@, "result"),
                                 !.state = "failed"]
               ELSE [hrun EXCEPT !.pc = "done", !.exits = Append(@, "result"),
                                 !.state = "completed", !.progress = 10]
    /\ HRunFrame

\* return self._get_result(); execute(): COMPLETED, progress 1.0
HRunResult ==
    /\ hrun.pc = "result"
    /\ hrun' = [hrun EXCEPT !.pc = "done", !.exits = Append(@, "result"),
                            !.state = "completed", !.progress = 10]
    /\ HRunFrame

\* request_stop(), request_pause(), resume() by other threads
HRequestStop ==
    /\ hrun.requests < MaxRequests
    /\ hrun' = [hrun EXCEPT !.stop = TRUE, !.requests = @ + 1]
    /\ HRunFrame

HRequestPause ==
    /\ hrun.requests < MaxRequests
    /\ hrun' = [hrun EXCEPT !.pause = TRUE, !.requests = @ + 1]
    /\ HRunFrame

HResume ==
    /\ hrun.requests < MaxRequests
    /\ hrun' = [hrun EXCEPT !.pause = FALSE, !.state = "running", !.requests = @ + 1]
    /\ HRunFrame

\* ------------------------------------------------- legacy Task (task.py)
max_retries == 3

\* Task.__init__; calls counts the start() and retry() calls made, reruns the
\* runs of the work routine that retry() started, returned is what the last
\* start() or retry() call returned at once ("None") or "pending" while the
\* routine it started runs
Task ==
    [running |-> FALSE, paused |-> FALSE, stopped |-> FALSE, status |-> "initialized",
     retry_count |-> 0, calls |-> 0, reruns |-> 0, returned |-> "unset"]

LegacyFrame == UNCHANGED <<sched_vars, bus_vars, sm_vars, ckpt_vars, hrun>>

\* start() up to the call of _run: None when the task is running, else the
\* reset of the flags and of retry_count
start_task(tk) ==
    IF tk.running THEN [tk EXCEPT !.returned = "None"]
    ELSE [tk EXCEPT !.running = TRUE, !.paused = FALSE, !.stopped = FALSE,
                    !.retry_count = 0, !.status = "running", !.returned = "pending"]

\* retry(): the test against max_retries, the increment, then start()
retry(tk) ==
    IF tk.retry_count >= max_retries THEN [tk EXCEPT !.returned = "None"]
    ELSE LET counted == [tk EXCEPT !.retry_count = @ + 1]
             started == start_task(counted)
         IN  IF counted.running THEN started
             ELSE [started EXCEPT !.reruns = @ + 1]

TaskStart ==
    /\ legacy.calls < MaxLegacyCalls
    /\ legacy' = [start_task(legacy) EXCEPT !.calls = @ + 1]
    /\ LegacyFrame

TaskRetry ==
    /\ legacy.calls < MaxLegacyCalls
    /\ legacy' = [retry(legacy) EXCEPT !.calls = @ + 1]
    /\ LegacyFrame

\* start(), after _run: completed or failed; finally running = False
TaskRunEnds(outcome) ==
    /\ legacy.running
    /\ legacy' = [legacy EXCEPT !.running = FALSE, !.returned = "result",
                                !.status = IF outcome = "raises" THEN "failed" ELSE "completed"]
    /\ LegacyFrame

\* stop(), pause(), resume()
TaskStop ==
    /\ legacy.running
    /\ legacy' = [legacy EXCEPT !.stopped = TRUE, !.status = "stopped"]
    /\ LegacyFrame

TaskPause ==
    /\ legacy.running /\ ~legacy.paused
    /\ legacy' = [legacy EXCEPT !.paused = TRUE, !.status = "paused"]
    /\ LegacyFrame

TaskResume ==
    /\ legacy.running /\ legacy.paused
    /\ legacy' = [legacy EXCEPT !.paused = FALSE, !.status = "running"]
    /\ LegacyFrame

HybInit == BusInit /\ SmInit /\ CkptInit /\ hrun = HybridTask /\ legacy = Task

\* --------------------------------------------------------------- Init
Init ==
    /\ now = 0
    /\ task_queue = <<>>
    /\ running_tasks = {}
    /\ task_contexts = {}
    /\ running = FALSE
    /\ scheduler_thread = 0
    /\ joining = FALSE
    /\ thr = [i \in Threads |-> IdleThread]
    /\ context = [t \in Tasks |-> TaskContext]
    /\ should_stop = [t \in Tasks |-> FALSE]
    /\ should_pause = [t \in Tasks |-> FALSE]
    /\ resource_triggers = 0
    /\ cleanup_tasks = <<>>
    /\ submits_left = MaxSubmits
    /\ calls_left = 0
    /\ HybInit

\* the clock advances
Tick ==
    /\ now < MaxTime
    /\ now' = now + 1
    /\ UNCHANGED <<hyb_vars, queue_vars, ctl_vars, trig_vars, task_vars, running_tasks, thr, calls_left>>

\* ------------------------------------------------- InterruptibleTask
\* request_stop() flipping the signal instead of setting it
request_stop_toggles(t) == [should_stop EXCEPT ![t] = ~should_stop[t]]

request_stop(t) == [should_stop EXCEPT ![t] = TRUE]

request_pause(t) == [should_pause EXCEPT ![t] = TRUE]

\* resume(): the pause signal and the Context after the call
resume_signal(t) == [should_pause EXCEPT ![t] = FALSE]

resume(t) == [context[t] EXCEPT !.resume_time = now, !.state = "running"]

save_progress(t, p) == [context[t] EXCEPT !.progress = p]

\* execute(), entry: RUNNING and the start time
execute_begin(t) == [context[t] EXCEPT !.state = "running", !.start_time = now]

\* execute() leaving the saved progress as it is on a normal return
execute_completed_keeps_progress(t) == [context[t] EXCEPT !.state = "completed"]

\* execute() reporting INTERRUPTED when the routine returns with the stop set
execute_completed_unless_stopped(t) ==
    IF should_stop[t] THEN [context[t] EXCEPT !.state = "interrupted"]
    ELSE [context[t] EXCEPT !.state = "completed", !.progress = 10]

\* execute(), normal return of _run
execute_completed(t) == [context[t] EXCEPT !.state = "completed", !.progress = 10]

\* execute() reporting an interruption as CANCELLED
execute_interrupted_cancels(t) == [context[t] EXCEPT !.state = "cancelled"]

\* execute(), except InterruptedException
execute_interrupted(t) == [context[t] EXCEPT !.state = "interrupted"]

\* execute(), except Exception
execute_failed(t) == [context[t] EXCEPT !.state = "failed"]

\* check_interruption(): the two tests on the signals
stop_is_set(t) == should_stop[t]

pause_is_set(t) == should_pause[t]

\* check_interruption() entering the pause without recording the pause time
enter_pause_without_time(t) == [context[t] EXCEPT !.state = "paused"]

\* check_interruption(): entering the pause
enter_pause(t) == [context[t] EXCEPT !.state = "paused", !.pause_time = now]

\* where check_interruption returns to
AfterCheck(t) == IF Kind(t) = "hybrid" THEN "h_body" ELSE "run"

SetContext(t, c) == context' = [context EXCEPT ![t] = c]

\* --------------------------------------------------- TaskScheduler, callers
\* start() without the test of _running
start_spawns_always ==
    /\ ~joining
    /\ \E i \in Threads :
         /\ thr[i].pc = "dead"
         /\ \A j \in Threads : j < i => thr[j].pc # "dead"
         /\ running' = TRUE
         /\ scheduler_thread' = i
         /\ thr' = [thr EXCEPT ![i].pc = "while"]
    /\ UNCHANGED <<hyb_vars, now, queue_vars, trig_vars, task_vars, running_tasks, joining, calls_left>>

\* start()
Start ==
    /\ ~joining
    /\ IF running THEN UNCHANGED <<running, scheduler_thread, thr>>
       ELSE \E i \in Threads :
              /\ thr[i].pc = "dead"
              /\ \A j \in Threads : j < i => thr[j].pc # "dead"
              /\ running' = TRUE
              /\ scheduler_thread' = i
              /\ thr' = [thr EXCEPT ![i].pc = "while"]
    /\ UNCHANGED <<hyb_vars, now, queue_vars, trig_vars, task_vars, running_tasks, joining, calls_left>>

\* stop(): clears the flag and enters join(timeout=5) when a thread was ever started
Stop ==
    /\ ~joining
    /\ running' = FALSE
    /\ joining' = (scheduler_thread # 0)
    /\ UNCHANGED <<hyb_vars, now, queue_vars, trig_vars, task_vars, running_tasks, scheduler_thread,
                   thr, calls_left>>

\* the pcs at which a dispatch thread is inside _execute_task
InExecute == {"register", "execute", "run", "ci", "ci_set", "ci_wait", "ci_resume",
              "h_loop", "h_body", "h_exit", "finally"}

\* the pcs at which a thread can stay longer than the 5 seconds join waits:
\* inside a routine's work, in the pause wait, inside a hybrid iteration
JoinTimeoutPcs == {"run", "ci_wait", "h_body"}

\* join returns: the thread ended, or the timeout passed while it runs a task
StopReturn ==
    /\ joining
    /\ thr[scheduler_thread].pc \in {"dead"} \cup JoinTimeoutPcs
    /\ joining' = FALSE
    /\ UNCHANGED <<hyb_vars, now, queue_vars, trig_vars, task_vars, running_tasks, running,
                   scheduler_thread, thr, calls_left>>

\* submit_task(task, delay): the queue and the status registry after the call;
\* raised is TRUE when PriorityQueue.put raised TypeError (after the append)
submit_task(t, delay) ==
    LET r == heappush(task_queue, Entry(t, now + delay))
    IN  [queue |-> r.heap,
         contexts |-> IF r.err THEN task_contexts ELSE task_contexts \cup {t},
         raised |-> r.err]

SubmitTask(t, delay) ==
    /\ submits_left > 0
    /\ LET r == submit_task(t, delay)
       IN  /\ task_queue' = r.queue
           /\ task_contexts' = r.contexts
    /\ submits_left' = submits_left - 1
    /\ UNCHANGED <<hyb_vars, now, ctl_vars, trig_vars, task_vars, running_tasks, thr, calls_left>>

\* interrupt_task(task_id, new_task): new_task = NoTask stands for None
InterruptTask(t, new_task) ==
    /\ calls_left > 0
    /\ calls_left' = calls_left - 1
    /\ new_task # NoTask => submits_left > 0
    /\ IF t \in running_tasks
       THEN /\ should_stop' = request_stop(t)
            /\ IF new_task # NoTask
               THEN LET r == submit_task(new_task, 0)
                    IN  /\ task_queue' = r.queue
                        /\ task_contexts' = r.contexts
                        /\ submits_left' = submits_left - 1
               ELSE UNCHANGED queue_vars
       ELSE UNCHANGED <<should_stop, queue_vars>>
    /\ UNCHANGED <<hyb_vars, now, ctl_vars, trig_vars, context, should_pause, running_tasks, thr>>

\* pause_task() forwarding to the task whether it is running or not
pause_task_unchecked(t) ==
    /\ calls_left > 0
    /\ calls_left' = calls_left - 1
    /\ should_pause' = request_pause(t)
    /\ UNCHANGED <<hyb_vars, now, queue_vars, ctl_vars, trig_vars, context, should_stop,
                   running_tasks, thr>>

\* pause_task(task_id)
PauseTask(t) ==
    /\ calls_left > 0
    /\ calls_left' = calls_left - 1
    /\ should_pause' = IF t \in running_tasks THEN request_pause(t) ELSE should_pause
    /\ UNCHANGED <<hyb_vars, now, queue_vars, ctl_vars, trig_vars, context, should_stop,
                   running_tasks, thr>>

\* resume_task(task_id)
ResumeTask(t) ==
    /\ calls_left > 0
    /\ calls_left' = calls_left - 1
    /\ IF t \in running_tasks
       THEN /\ should_pause' = resume_signal(t)
            /\ SetContext(t, resume(t))
       ELSE UNCHANGED <<should_pause, context>>
    /\ UNCHANGED <<hyb_vars, now, queue_vars, ctl_vars, trig_vars, should_stop, running_tasks, thr>>

\* task.request_stop() called directly on the task object
RequestStop(t) ==
    /\ calls_left > 0
    /\ calls_left' = calls_left - 1
    /\ should_stop' = request_stop(t)
    /\ UNCHANGED <<hyb_vars, now, queue_vars, ctl_vars, trig_vars, context, should_pause,
                   running_tasks, thr>>

\* task.request_pause() called directly on the task object
RequestPause(t) ==
    /\ calls_left > 0
    /\ calls_left' = calls_left - 1
    /\ should_pause' = request_pause(t)
    /\ UNCHANGED <<hyb_vars, now, queue_vars, ctl_vars, trig_vars, context, should_stop,
                   running_tasks, thr>>

\* task.resume() called directly on the task object
Resume(t) ==
    /\ calls_left > 0
    /\ calls_left' = calls_left - 1
    /\ should_pause' = resume_signal(t)
    /\ SetContext(t, resume(t))
    /\ UNCHANGED <<hyb_vars, now, queue_vars, ctl_vars, trig_vars, should_stop, running_tasks, thr>>

\* get_task_status(task_id): {the Context}, or {} for None
get_task_status(t) == IF t \in task_contexts THEN {context[t]} ELSE {}

\* ------------------------------------------- TaskScheduler, dispatch loop
\* what one evaluation of a trigger predicate does
Outcomes == {"false", "true", "raises"}

\* the outcomes the registered predicates can have in one iteration, in
\* registration order
TriggerOutcomes == [1..resource_triggers -> Outcomes]

\* check_resource_triggers() with the try around the loop over the predicates
check_resource_triggers_aborts(outs) ==
    LET stop == {k \in DOMAIN outs : outs[k] # "false"}
        first == IF stop = {} THEN 0 ELSE CHOOSE k \in stop : \A j \in stop : k <= j
    IN  [result |-> IF first = 0 \/ outs[first] = "raises" THEN None
                    ELSE IF first <= Len(cleanup_tasks) THEN cleanup_tasks[first] ELSE None,
         errors |-> IF first # 0 /\ outs[first] = "raises" THEN 1 ELSE 0]

\* check_resource_triggers(): the predicates are evaluated in order up to the
\* first that returns true; one that raises is logged and the loop goes on.
\* result is the value returned, errors the number of errors logged.
check_resource_triggers(outs) ==
    LET fire == {k \in DOMAIN outs : outs[k] = "true"}
        first == IF fire = {} THEN 0 ELSE CHOOSE k \in fire : \A j \in fire : k <= j
        evaluated == IF first = 0 THEN DOMAIN outs ELSE 1..first
    IN  [result |-> IF first = 0 THEN None
                    ELSE IF first <= Len(cleanup_tasks) THEN cleanup_tasks[first] ELSE None,
         errors |-> Cardinality({k \in evaluated : outs[k] = "raises"})]

\* add_resource_trigger(trigger, cleanup_task_id): the two lists after the call
add_resource_trigger(id) ==
    [triggers |-> resource_triggers + 1,
     cleanup |-> IF \E k \in DOMAIN cleanup_tasks : cleanup_tasks[k] = id
                 THEN cleanup_tasks ELSE Append(cleanup_tasks, id)]

AddResourceTrigger(id) ==
    /\ resource_triggers < MaxTriggers
    /\ resource_triggers' = add_resource_trigger(id).triggers
    /\ cleanup_tasks' = add_resource_trigger(id).cleanup
    /\ UNCHANGED <<hyb_vars, now, queue_vars, ctl_vars, task_vars, running_tasks, thr, calls_left>>

\* _pause_all_tasks()
pause_all_tasks == [t \in Tasks |-> IF t \in running_tasks THEN TRUE ELSE should_pause[t]]

\* while self._running: check the triggers, pause all when one names a cleanup task
\* (LoopHeadWith: the iteration in which the predicates have the outcomes outs)
LoopHeadWith(i, outs) ==
    /\ thr[i].pc = "while"
    /\ IF ~running
       THEN /\ thr' = [thr EXCEPT ![i].pc = "dead"]
            /\ UNCHANGED should_pause
       ELSE /\ thr' = [thr EXCEPT ![i].pc = "get",
                                 ![i].errors = check_resource_triggers(outs).errors]
            /\ should_pause' = IF check_resource_triggers(outs).result # None
                                THEN pause_all_tasks ELSE should_pause
    /\ UNCHANGED <<hyb_vars, now, queue_vars, ctl_vars, trig_vars, context, should_stop,
                   running_tasks, calls_left>>

LoopHead(i) == \E outs \in TriggerOutcomes : LoopHeadWith(i, outs)

\* if not task_queue.empty(): get(timeout=1) ... else: sleep(0.1)
\* a TypeError raised inside get is swallowed by the bare except
LoopGet(i) ==
    /\ thr[i].pc = "get"
    /\ IF task_queue = <<>>
       THEN /\ thr' = [thr EXCEPT ![i].pc = "while", ![i].errors = 0]
            /\ UNCHANGED task_queue
       ELSE LET r == heappop(task_queue)
            IN  /\ task_queue' = r.heap
                /\ thr' = IF r.err THEN [thr EXCEPT ![i].pc = "while", ![i].errors = 0]
                          ELSE [thr EXCEPT ![i] = [pc |-> "register", task |-> r.item.task,
                                                   time |-> r.item.time, result |-> "unset",
                                                   errors |-> 0]]
    /\ UNCHANGED <<hyb_vars, now, task_contexts, submits_left, ctl_vars, trig_vars, task_vars,
                   running_tasks, calls_left>>

\* _execute_task: running_tasks[task.task_id] = task
Register(i) ==
    /\ thr[i].pc = "register"
    /\ running_tasks' = running_tasks \cup {thr[i].task}
    /\ thr' = [thr EXCEPT ![i].pc = "execute"]
    /\ UNCHANGED <<hyb_vars, now, queue_vars, ctl_vars, trig_vars, task_vars, calls_left>>

\* task.execute(): state RUNNING, start time, then _run
Execute(i) ==
    /\ thr[i].pc = "execute"
    /\ SetContext(thr[i].task, execute_begin(thr[i].task))
    /\ thr' = [thr EXCEPT ![i].pc = IF Kind(thr[i].task) = "hybrid" THEN "h_loop" ELSE "run"]
    /\ UNCHANGED <<hyb_vars, now, queue_vars, ctl_vars, trig_vars, should_stop, should_pause,
                   running_tasks, calls_left>>

\* what a step of a task's own code leaves alone
TaskFrame == UNCHANGED <<hyb_vars, now, queue_vars, ctl_vars, trig_vars, should_stop, running_tasks, calls_left>>

\* ----------------------------------------------- the work routines (_run)
\* the value save_progress is called with by the routines of the model
SavedProgress == 5

\* execute() ends: the Context it leaves and what _execute_task receives
\* ("value": the routine's result, "none": None, "raised": the error re-raised)
EndExecute(i, c, res) ==
    /\ SetContext(thr[i].task, c)
    /\ thr' = [thr EXCEPT ![i].pc = "finally", ![i].result = res]

\* a routine of a plain task reaches a call of check_interruption
RunCheck(i) ==
    /\ thr[i].pc = "run"
    /\ Kind(thr[i].task) = "plain"
    /\ thr' = [thr EXCEPT ![i].pc = "ci"]
    /\ UNCHANGED <<context, should_pause>>
    /\ TaskFrame

\* a routine (or a hook of a hybrid task) calls save_progress
RunSave(i) ==
    /\ thr[i].pc \in {"run", "h_body"}
    /\ context[thr[i].task].progress # SavedProgress
    /\ SetContext(thr[i].task, save_progress(thr[i].task, SavedProgress))
    /\ UNCHANGED <<thr, should_pause>>
    /\ TaskFrame

\* _run returns normally: execute sets COMPLETED, progress 1.0, returns the result
RunReturn(i) ==
    /\ thr[i].pc = "run"
    /\ EndExecute(i, execute_completed(thr[i].task), "value")
    /\ UNCHANGED should_pause
    /\ TaskFrame

\* _run raises an ordinary error: execute sets FAILED and re-raises
RunError(i) ==
    /\ thr[i].pc = "run"
    /\ EndExecute(i, execute_failed(thr[i].task), "raised")
    /\ UNCHANGED should_pause
    /\ TaskFrame

\* InterruptedException leaves check_interruption: a plain routine lets it
\* through to execute (INTERRUPTED, returns None); HybridTask._run catches it
\* with "except Exception" inside its loop, publishes ERROR_OCCURRED, breaks,
\* runs _cleanup and returns _get_result(), so execute sets COMPLETED
RaiseInterrupted(i) ==
    IF Kind(thr[i].task) = "hybrid"
    THEN EndExecute(i, execute_completed(thr[i].task), "value")
    ELSE EndExecute(i, execute_interrupted(thr[i].task), "none")

\* check_interruption(), entry: stop raises, pause enters the wait, else return
CheckInterruption(i) ==
    /\ thr[i].pc = "ci"
    /\ LET t == thr[i].task
       IN  IF stop_is_set(t) THEN RaiseInterrupted(i)
           ELSE /\ thr' = [thr EXCEPT ![i].pc = IF pause_is_set(t) THEN "ci_set" ELSE AfterCheck(t)]
                /\ UNCHANGED context
    /\ UNCHANGED should_pause
    /\ TaskFrame

\* check_interruption(): state PAUSED, pause time
CheckSetPaused(i) ==
    /\ thr[i].pc = "ci_set"
    /\ SetContext(thr[i].task, enter_pause(thr[i].task))
    /\ thr' = [thr EXCEPT ![i].pc = "ci_wait"]
    /\ UNCHANGED should_pause
    /\ TaskFrame

\* check_interruption(): the wait loop is left when pause is clear or stop is
\* set; stop then raises (while the loop condition holds the thread sleeps)
CheckWait(i) ==
    /\ thr[i].pc = "ci_wait"
    /\ LET t == thr[i].task
       IN  /\ ~(pause_is_set(t) /\ ~stop_is_set(t))
           /\ IF stop_is_set(t) THEN RaiseInterrupted(i)
              ELSE /\ thr' = [thr EXCEPT ![i].pc = "ci_resume"]
                   /\ UNCHANGED context
    /\ UNCHANGED should_pause
    /\ TaskFrame

\* check_interruption(): self.resume(), then return to the routine
CheckResume(i) ==
    /\ thr[i].pc = "ci_resume"
    /\ LET t == thr[i].task
       IN  /\ should_pause' = resume_signal(t)
           /\ SetContext(t, resume(t))
           /\ thr' = [thr EXCEPT ![i].pc = AfterCheck(t)]
    /\ TaskFrame

\* HybridTask._run: while not self._should_stop.is_set()
HybridLoop(i) ==
    /\ thr[i].pc = "h_loop"
    /\ thr' = [thr EXCEPT ![i].pc = IF stop_is_set(thr[i].task) THEN "h_exit" ELSE "ci"]
    /\ UNCHANGED <<context, should_pause>>
    /\ TaskFrame

\* HybridTask._run: the rest of an iteration after check_interruption:
\* an error (caught, ERROR_OCCURRED, break), completion (break) or the next round
HybridBody(i) ==
    /\ thr[i].pc = "h_body"
    /\ \E next \in {"h_exit", "h_loop"} : thr' = [thr EXCEPT ![i].pc = next]
    /\ UNCHANGED <<context, should_pause>>
    /\ TaskFrame

\* HybridTask._run after the loop, however it was left: _cleanup(), return
\* _get_result(); execute then sets COMPLETED
HybridExit(i) ==
    /\ thr[i].pc = "h_exit"
    /\ EndExecute(i, execute_completed(thr[i].task), "value")
    /\ UNCHANGED should_pause
    /\ TaskFrame

\* _execute_task removing the entry after a successful execute only
finally_on_success_only(i) ==
    /\ thr[i].pc = "finally"
    /\ running_tasks' = IF thr[i].result = "raised" THEN running_tasks
                        ELSE running_tasks \ {thr[i].task}
    /\ thr' = [thr EXCEPT ![i] = [IdleThread EXCEPT !.pc = "while"]]
    /\ UNCHANGED <<hyb_vars, now, queue_vars, ctl_vars, trig_vars, task_vars, calls_left>>

\* _execute_task, finally: del running_tasks[task.task_id]; back to the loop
Finally(i) ==
    /\ thr[i].pc = "finally"
    /\ running_tasks' = running_tasks \ {thr[i].task}
    /\ thr' = [thr EXCEPT ![i] = [IdleThread EXCEPT !.pc = "while"]]
    /\ UNCHANGED <<hyb_vars, now, queue_vars, ctl_vars, trig_vars, task_vars, calls_left>>

\* ------------------------------------------------------- specifications
\* The dispatch scenario: callers start and stop the scheduler and submit
\* tasks; nobody requests a pause or a stop, so the pause path of
\* check_interruption is never taken.
Next ==
    \/ Tick
    \/ Start
    \/ Stop
    \/ StopReturn
    \/ \E t \in Tasks, d \in Delays : SubmitTask(t, d)
    \/ \E i \in Threads : LoopHead(i)
    \/ \E i \in Threads : LoopGet(i)
    \/ \E i \in Threads : Register(i)
    \/ \E i \in Threads : Execute(i)
    \/ \E i \in Threads : RunCheck(i)
    \/ \E i \in Threads : RunSave(i)
    \/ \E i \in Threads : RunReturn(i)
    \/ \E i \in Threads : RunError(i)
    \/ \E i \in Threads : CheckInterruption(i)
    \/ \E i \in Threads : HybridLoop(i)
    \/ \E i \in Threads : HybridBody(i)
    \/ \E i \in Threads : HybridExit(i)
    \/ \E i \in Threads : Finally(i)

Spec == Init /\ [][Next]_vars

\* The resource-trigger scenario: the dispatch scenario with TrigSubmits
\* submits, in which callers also register up to MaxTriggers trigger predicates.
\* No caller resumes or stops a task here, so a task that entered the pause
\* wait of check_interruption stays in it.
TrigInit ==
    /\ now = 0
    /\ task_queue = <<>>
    /\ running_tasks = {}
    /\ task_contexts = {}
    /\ running = FALSE
    /\ scheduler_thread = 0
    /\ joining = FALSE
    /\ thr = [i \in Threads |-> IdleThread]
    /\ context = [t \in Tasks |-> TaskContext]
    /\ should_stop = [t \in Tasks |-> FALSE]
    /\ should_pause = [t \in Tasks |-> FALSE]
    /\ resource_triggers = 0
    /\ cleanup_tasks = <<>>
    /\ submits_left = TrigSubmits
    /\ calls_left = 0
    /\ HybInit

TrigNext ==
    \/ Tick
    \/ Start
    \/ Stop
    \/ StopReturn
    \/ \E t \in Tasks, d \in Delays : SubmitTask(t, d)
    \/ \E id \in CleanupIds : AddResourceTrigger(id)
    \/ \E i \in Threads : LoopHead(i)
    \/ \E i \in Threads : LoopGet(i)
    \/ \E i \in Threads : Register(i)
    \/ \E i \in Threads : Execute(i)
    \/ \E i \in Threads : RunCheck(i)
    \/ \E i \in Threads : RunSave(i)
    \/ \E i \in Threads : RunReturn(i)
    \/ \E i \in Threads : RunError(i)
    \/ \E i \in Threads : CheckInterruption(i)
    \/ \E i \in Threads : CheckSetPaused(i)
    \/ \E i \in Threads : HybridLoop(i)
    \/ \E i \in Threads : HybridBody(i)
    \/ \E i \in Threads : HybridExit(i)
    \/ \E i \in Threads : Finally(i)

TrigSpec == TrigInit /\ [][TrigNext]_vars

\* A HybridTask's objects as constructed, beside a scheduler that is not used
SchedInit ==
    /\ now = 0
    /\ task_queue = <<>>
    /\ running_tasks = {}
    /\ task_contexts = {}
    /\ running = FALSE
    /\ scheduler_thread = 0
    /\ joining = FALSE
    /\ thr = [i \in Threads |-> IdleThread]
    /\ context = [t \in Tasks |-> TaskContext]
    /\ should_stop = [t \in Tasks |-> FALSE]
    /\ should_pause = [t \in Tasks |-> FALSE]
    /\ resource_triggers = 0
    /\ cleanup_tasks = <<>>
    /\ submits_left = 0
    /\ calls_left = 0
    /\ HybInit

\* The event-bus scenario: callers subscribe, unsubscribe, publish and drain
\* one EventBus.
BusNext ==
    \/ \E ty \in EventTypes, l \in Listeners : Subscribe(ty, l)
    \/ \E ty \in EventTypes, l \in Listeners : Unsubscribe(ty, l)
    \/ \E ty \in EventTypes : Publish(ty)
    \/ Deliver
    \/ PublishReturn
    \/ ProcessEvents

BusSpec == SchedInit /\ [][BusNext]_vars

\* The state-machine scenario: MaxSetup registrations on one StateMachine and
\* MaxHandle events handled by it.
SmNext ==
    \/ \E from \in PageState, ev \in TaskEvent, to \in PageState : AddTransition(from, ev, to)
    \/ \E st \in PageState, h \in HandlerKinds : AddStateHandler(st, h)
    \/ \E from \in PageState, to \in PageState, h \in HandlerKinds :
          AddTransitionHandler(from, to, h)
    \/ \E ev \in TaskEvent : HandleEvent(ev)
    \/ \E ev \in TaskEvent : CanTransition(ev)

SmSpec == SchedInit /\ [][SmNext]_vars

\* The checkpoint scenario: a task saves its progress up to MaxSaves times and
\* takes up to MaxCheckpoints checkpoints, of its live data or of another
\* dict, while the clock advances.
CkptNext ==
    \/ Tick
    \/ \E p \in Progress, data \in SmallDicts \cup {NoData} : SaveProgress(p, data)
    \/ \E name \in CheckpointNames, data \in DataArgs : SaveCheckpoint(name, data)
    \/ GetLatestCheckpoint

CkptSpec == SchedInit /\ [][CkptNext]_vars

\* the tables a subclass's _setup_state_machine can have built: transitions
\* on PAGE_CHANGED, entry handlers
Machines ==
    {[StateMachine EXCEPT !.transitions = [key \in PageState \X TaskEvent |->
                                             IF key[2] = "PAGE_CHANGED" THEN tr[key[1]]
                                             ELSE NoState],
                          !.state_handlers = sh] :
        tr \in [PageState -> PageState \cup {NoState}],
        sh \in [PageState -> HandlerKinds \cup {Absent}]}

\* The hybrid-run scenario: one HybridTask with a state machine set up by its
\* constructor is executed; other threads make up to MaxRequests stop, pause
\* and resume requests; the run makes up to MaxIter iterations.
HRunInit ==
    /\ now = 0
    /\ task_queue = <<>>
    /\ running_tasks = {}
    /\ task_contexts = {}
    /\ running = FALSE
    /\ scheduler_thread = 0
    /\ joining = FALSE
    /\ thr = [i \in Threads |-> IdleThread]
    /\ context = [t \in Tasks |-> TaskContext]
    /\ should_stop = [t \in Tasks |-> FALSE]
    /\ should_pause = [t \in Tasks |-> FALSE]
    /\ resource_triggers = 0
    /\ cleanup_tasks = <<>>
    /\ submits_left = 0
    /\ calls_left = 0
    /\ BusInit
    /\ CkptInit
    /\ state_machine \in Machines
    /\ sm_obs = [setups |-> 0, handled |-> 0, result |-> "unset", invoked |-> <<>>,
                 last |-> <<>>, can |-> "unset"]
    /\ hrun = HybridTask
    /\ legacy = Task

HRunNext ==
    \/ HRunStart
    \/ HRunWhile
    \/ HRunCheck
    \/ HRunWait
    \/ \E page \in PageState : HRunDetect(page)
    \/ HRunProcess
    \/ \E outcome \in {"returns", "raises"} : HRunLogic(outcome)
    \/ \E outcome \in {"true", "false", "raises"} : HRunCompletion(outcome)
    \/ HRunCleanup
    \/ HRunResult
    \/ HRequestStop
    \/ HRequestPause
    \/ HResume

HRunSpec == HRunInit /\ [][HRunNext]_vars

\* The legacy-task scenario: callers start, retry, stop, pause and resume one
\* Task; start() and retry() are called up to MaxLegacyCalls times.
LegacyNext ==
    \/ TaskStart
    \/ TaskRetry
    \/ \E outcome \in {"returns", "raises"} : TaskRunEnds(outcome)
    \/ TaskStop
    \/ TaskPause
    \/ TaskResume

LegacySpec == SchedInit /\ [][LegacyNext]_vars

\* The task-control scenario: the scheduler is started once and never stopped;
\* callers submit TaskSubmits tasks and make MaxCalls pause / resume / stop
\* requests, through the scheduler or on the task objects.
TaskInit ==
    /\ now = 0
    /\ task_queue = <<>>
    /\ running_tasks = {}
    /\ task_contexts = {}
    /\ running = FALSE
    /\ scheduler_thread = 0
    /\ joining = FALSE
    /\ thr = [i \in Threads |-> IdleThread]
    /\ context = [t \in Tasks |-> TaskContext]
    /\ should_stop = [t \in Tasks |-> FALSE]
    /\ should_pause = [t \in Tasks |-> FALSE]
    /\ resource_triggers = 0
    /\ cleanup_tasks = <<>>
    /\ submits_left = TaskSubmits
    /\ calls_left = MaxCalls
    /\ HybInit

TaskNext ==
    \/ Tick
    \/ Start
    \/ \E t \in Tasks, d \in Delays : SubmitTask(t, d)
    \/ \E t \in Tasks, n \in Tasks \cup {NoTask} : InterruptTask(t, n)
    \/ \E t \in Tasks : PauseTask(t)
    \/ \E t \in Tasks : ResumeTask(t)
    \/ \E t \in Tasks : RequestStop(t)
    \/ \E t \in Tasks : RequestPause(t)
    \/ \E t \in Tasks : Resume(t)
    \/ \E i \in Threads : LoopHead(i)
    \/ \E i \in Threads : LoopGet(i)
    \/ \E i \in Threads : Register(i)
    \/ \E i \in Threads : Execute(i)
    \/ \E i \in Threads : RunCheck(i)
    \/ \E i \in Threads : RunSave(i)
    \/ \E i \in Threads : RunReturn(i)
    \/ \E i \in Threads : RunError(i)
    \/ \E i \in Threads : CheckInterruption(i)
    \/ \E i \in Threads : CheckSetPaused(i)
    \/ \E i \in Threads : CheckWait(i)
    \/ \E i \in Threads : CheckResume(i)
    \/ \E i \in Threads : HybridLoop(i)
    \/ \E i \in Threads : HybridBody(i)
    \/ \E i \in Threads : HybridExit(i)
    \/ \E i \in Threads : Finally(i)

TaskSpec == TaskInit /\ [][TaskNext]_vars

\* The pause scenario: the task-control scenario with one submitted task and
\* MaxPauseCalls pause / resume / stop requests.
PauseInit ==
    /\ now = 0
    /\ task_queue = <<>>
    /\ running_tasks = {}
    /\ task_contexts = {}
    /\ running = FALSE
    /\ scheduler_thread = 0
    /\ joining = FALSE
    /\ thr = [i \in Threads |-> IdleThread]
    /\ context = [t \in Tasks |-> TaskContext]
    /\ should_stop = [t \in Tasks |-> FALSE]
    /\ should_pause = [t \in Tasks |-> FALSE]
    /\ resource_triggers = 0
    /\ cleanup_tasks = <<>>
    /\ submits_left = 1
    /\ calls_left = MaxPauseCalls
    /\ HybInit

PauseSpec == PauseInit /\ [][TaskNext]_vars

\* ================================================================ claims
\* helpers of the formulas below
ThreadTask(i) == thr[i].task

KeyLess(a, b) == a.pri < b.pri \/ (a.pri = b.pri /\ a.time < b.time)

Count(q, e) == Cardinality({k \in DOMAIN q : q[k] = e})

\* q2 holds the entries of q and one more entry e
IsInsertOf(q, q2, e) ==
    /\ Len(q2) = Len(q) + 1
    /\ \A k \in DOMAIN q2 : Count(q2, q2[k]) = Count(q, q2[k]) + (IF q2[k] = e THEN 1 ELSE 0)

\* C1: at most one task's execute is in progress at any time: the running
\* registry never holds more than one entry, under any interleaving of
\* start, stop, submit_task and the dispatch loop.
C1_SingleWorker == Cardinality(running_tasks) <= 1

\* C2: the loop starts queued tasks in ascending (priority, ready time)
\* order: the entry a dispatch thread starts has no entry with a smaller key
\* queued beside it, and no entry leaves the queue unstarted while an entry
\* with a larger key stays queued behind it.
C2_PriorityOrder ==
    [][\A i \in Threads :
         (thr[i].pc = "get" /\ Len(task_queue') < Len(task_queue)) =>
            /\ thr'[i].pc = "register" =>
                 \A k \in DOMAIN task_queue :
                    ~KeyLess(task_queue[k], Entry(thr'[i].task, thr'[i].time))
            /\ thr'[i].pc # "register" =>
                 \A k \in DOMAIN task_queue' : ~KeyLess(task_queue[1], task_queue'[k])]_vars

\* C3: submit_task only inserts: after the call the queue holds exactly one
\* more entry, for this task, the status registry maps the task's id to its
\* context, and the contexts, the signals and the running registry are unchanged.
C3_SubmitInserts ==
    [][submits_left' < submits_left =>
         /\ \E t \in Tasks, tm \in 0..(MaxTime + MaxDelay) :
              /\ IsInsertOf(task_queue, task_queue', Entry(t, tm))
              /\ t \in task_contexts'
              /\ task_contexts' = task_contexts \cup {t}
         /\ UNCHANGED <<context, should_pause, running_tasks>>]_vars

\* C4: a task submitted with a delay does not begin execution before its
\* ready time: a dispatch thread holds an entry it has taken from the queue
\* only when the entry's ready time has been reached.
C4_NotBeforeReadyTime ==
    \A i \in Threads : thr[i].pc \in InExecute => thr[i].time <= now

\* C7: when a task's routine raises an ordinary error, the task's Context is
\* FAILED and get_task_status returns it, and the dispatch thread goes on
\* to the loop (it is in _execute_task's cleanup, not dead).
C7_FailureIsolated ==
    \A i \in Threads :
       thr[i].result = "raised" =>
          /\ thr[i].pc = "finally"
          /\ get_task_status(ThreadTask(i)) # {}
          /\ \A c \in get_task_status(ThreadTask(i)) : c.state = "failed"

\* thread i takes a step of its own
Steps(i) == thr'[i] # thr[i]

\* C5: a stop signal that is set when the routine calls check_interruption,
\* or while the task is in the pause wait, raises the cancellation signal and
\* execute ends INTERRUPTED, returning None without raising; the task is not
\* paused by that call (stop wins over pause).
C5_StopInterrupts ==
    [][\A i \in Threads :
         (thr[i].pc \in {"ci", "ci_wait"} /\ should_stop[ThreadTask(i)] /\ Steps(i)) =>
            /\ thr'[i].pc = "finally"
            /\ thr'[i].result = "none"
            /\ context'[ThreadTask(i)] =
                  [context[ThreadTask(i)] EXCEPT !.state = "interrupted"]]_vars

\* C6: a HybridTask that is running when its stop is requested ends
\* INTERRUPTED: when its per-iteration check_interruption observes the stop,
\* execute ends with Context state INTERRUPTED.
C6_HybridInterrupted ==
    [][\A i \in Threads :
         (thr[i].pc \in {"ci", "ci_wait"} /\ Kind(ThreadTask(i)) = "hybrid"
             /\ should_stop[ThreadTask(i)] /\ Steps(i)) =>
            /\ thr'[i].pc = "finally"
            /\ context'[ThreadTask(i)].state = "interrupted"]_vars

\* C8: with pause set and no stop, check_interruption makes the Context
\* PAUSED with the pause time and does not return while the pause signal
\* stays set; whoever clears the pause signal of a running task (resume_task,
\* resume) leaves the Context RUNNING with the resume time, and
\* check_interruption then returns to the routine with the signal clear.
C8_PauseResume ==
    [][/\ \A i \in Threads :
            /\ (thr[i].pc = "ci" /\ ~should_stop[ThreadTask(i)]
                   /\ should_pause[ThreadTask(i)] /\ Steps(i)) => thr'[i].pc = "ci_set"
            /\ (thr[i].pc = "ci_set" /\ Steps(i)) =>
                  /\ thr'[i].pc = "ci_wait"
                  /\ context'[ThreadTask(i)].state = "paused"
                  /\ context'[ThreadTask(i)].pause_time = now
            /\ (thr[i].pc = "ci_wait" /\ should_pause[ThreadTask(i)]
                   /\ ~should_stop[ThreadTask(i)]) => ~Steps(i)
            /\ (thr[i].pc = "ci_resume" /\ Steps(i)) =>
                  /\ thr'[i].pc = AfterCheck(ThreadTask(i))
                  /\ ~should_pause'[ThreadTask(i)]
                  /\ context'[ThreadTask(i)].state = "running"
       /\ \A t \in Tasks :
            (should_pause[t] /\ ~should_pause'[t]) =>
               /\ context'[t].state = "running"
               /\ context'[t].resume_time = now]_vars

\* C8 witness: a routine is running again after a pause and a resume
C8_Witness ==
    \E i \in Threads :
       /\ thr[i].pc = "run"
       /\ context[ThreadTask(i)].state = "running"
       /\ context[ThreadTask(i)].pause_time # None
       /\ context[ThreadTask(i)].resume_time # None
       /\ ~should_pause[ThreadTask(i)]
       /\ ~should_stop[ThreadTask(i)]

\* C9: execute sets RUNNING and the start time before the routine runs, and
\* when the routine returns normally execute ends COMPLETED with progress 1.0
\* (10 tenths), whatever progress was saved, and returns the routine's result.
C9_ExecuteCompletes ==
    [][\A i \in Threads :
         /\ (thr[i].pc = "execute" /\ Steps(i)) =>
               /\ thr'[i].pc \in {"run", "h_loop"}
               /\ context'[ThreadTask(i)].state = "running"
               /\ context'[ThreadTask(i)].start_time = now
         /\ (thr[i].pc \in {"run", "h_exit"} /\ thr'[i].pc = "finally"
                /\ thr'[i].result # "raised") =>
               /\ thr'[i].result = "value"
               /\ context[ThreadTask(i)].start_time # None
               /\ context'[ThreadTask(i)] =
                     [context[ThreadTask(i)] EXCEPT !.state = "completed", !.progress = 10]]_vars

\* C9 witness: a routine that had saved progress 0.5 has returned
C9_Witness ==
    \E i \in Threads :
       /\ thr[i].pc = "finally"
       /\ thr[i].result = "value"
       /\ context[ThreadTask(i)].state = "completed"
       /\ context[ThreadTask(i)].progress = 10
       /\ context[ThreadTask(i)].start_time # None

\* C10: a task whose routine never calls check_interruption is never PAUSED
\* or INTERRUPTED, whatever requests are made: its routine ends only by its
\* own return (then COMPLETED) or its own error.
C10_NoCheckNoInterruption ==
    [][/\ \A t \in Tasks :
            Kind(t) = "nocheck" => context'[t].state \notin {"paused", "interrupted"}
       /\ \A i \in Threads :
            (thr[i].pc = "run" /\ Kind(ThreadTask(i)) = "nocheck" /\ Steps(i)) =>
               \/ thr'[i].pc = "run"
               \/ /\ thr'[i].pc = "finally"
                  /\ thr'[i].result \in {"value", "raised"}
                  /\ thr'[i].result = "value" => context'[ThreadTask(i)].state = "completed"]_vars

\* C10 witness: such a task has completed with both signals set
C10_Witness ==
    \E i \in Threads :
       /\ thr[i].pc = "finally"
       /\ Kind(ThreadTask(i)) = "nocheck"
       /\ thr[i].result = "value"
       /\ should_stop[ThreadTask(i)]
       /\ should_pause[ThreadTask(i)]
       /\ context[ThreadTask(i)].state = "completed"

\* C11: resume() (and resume_task forwarding to it) on a task that is not
\* paused (Context state not PAUSED, pause signal clear) is a no-op: the
\* Context (state and timestamps) and both signals are unchanged.
C11_ResumeNoOp ==
    [][\A t \in Tasks :
         ((Resume(t) \/ ResumeTask(t)) /\ context[t].state # "paused" /\ ~should_pause[t]) =>
            UNCHANGED <<context, should_stop, should_pause>>]_vars

\* C12: request_stop is idempotent (on a task whose stop is set it changes
\* nothing, on any task it sets only that task's stop signal) and irreversible
\* (no operation, resume included, clears a stop signal), so every
\* check_interruption of a stopped task raises: the routine does not get
\* past it and the task is neither running nor paused afterwards.
C12_StopIdempotentIrreversible ==
    [][/\ \A t \in Tasks :
            /\ RequestStop(t) =>
                  /\ should_stop' = [should_stop EXCEPT ![t] = TRUE]
                  /\ UNCHANGED <<context, should_pause>>
                  /\ should_stop[t] => UNCHANGED should_stop
            /\ should_stop[t] => should_stop'[t]
       /\ \A i \in Threads :
            (thr[i].pc \in {"ci", "ci_wait"} /\ should_stop[ThreadTask(i)] /\ Steps(i)) =>
               /\ thr'[i].pc = "finally"
               /\ context'[ThreadTask(i)].state \notin {"running", "paused"}]_vars

\* C12 witness: a task that had completed once was stopped, executed again
\* and interrupted at its check_interruption
C12_Witness ==
    \E i \in Threads :
       /\ thr[i].pc = "finally"
       /\ thr[i].result = "none"
       /\ should_stop[ThreadTask(i)]
       /\ context[ThreadTask(i)].state = "interrupted"
       /\ context[ThreadTask(i)].progress = 10

\* C13: interrupt_task(task_id, new_task) sets the stop signal of task_id when
\* it is running, and whenever new_task is supplied submits it: one new queue
\* entry at delay 0 and its context in the status registry, whether or not
\* task_id is running.
C13_InterruptSubmits ==
    [][\A t \in Tasks, n \in Tasks \cup {NoTask} :
         InterruptTask(t, n) =>
            /\ t \in running_tasks => should_stop'[t]
            /\ n # NoTask =>
                  /\ IsInsertOf(task_queue, task_queue', Entry(n, now))
                  /\ n \in task_contexts']_vars

\* C14: in a dispatch-loop iteration in which some registered trigger
\* predicate returns true, every task then in the running registry has its
\* pause signal set, whatever sequence of add_resource_trigger calls
\* registered the predicates.
C14_TriggerPausesAll ==
    [][\A i \in Threads, outs \in TriggerOutcomes :
         (running /\ LoopHeadWith(i, outs) /\ \E k \in DOMAIN outs : outs[k] = "true") =>
            \A t \in running_tasks : should_pause'[t]]_vars

\* the callback the publish call in progress invokes next
NextListener == event_bus.listeners[Top.event.event_type][Top.k + 1]

\* every callback has received its events in the order they were published
InPublishOrder ==
    \A j, k \in DOMAIN calls :
       (j < k /\ calls[j][1] = calls[k][1]) => calls[j][2] <= calls[k][2]

\* C15: publish(e) appends e to the pending queue and, before it returns, has
\* invoked every callback subscribed to e's type once per subscription, in
\* subscription order; and every callback receives the events it is invoked
\* with in publish order.
C15_PublishDelivers ==
    [][/\ \A ty \in EventTypes :
            Publish(ty) => Len(event_bus'.event_queue) = Len(event_bus.event_queue) + 1
       /\ PublishReturn => Top.invoked = Top.subs
       /\ InPublishOrder']_vars

\* C16: process_events returns the pending events in publish order and
\* empties the queue; the batches returned so far followed by the pending
\* queue are exactly the events published, each once, in publish order (so
\* every event is returned by one call only, and a call with no publish since
\* the last one returns the empty list).
C16_ProcessDrains ==
    [][/\ ProcessEvents =>
            /\ batches' = Append(batches, event_bus.event_queue)
            /\ event_bus'.event_queue = <<>>
       /\ LET all == Flatten(batches') \o event_bus'.event_queue
          IN  \A k \in DOMAIN all : all[k].id = k]_vars

\* C16 witness: an event published from a callback was returned by the first
\* of two process_events calls, and the second returned the empty list
C16_Witness ==
    /\ Len(batches) = 2
    /\ \E k \in DOMAIN batches[1] : batches[1][k].source = "callback"
    /\ batches[2] = <<>>

\* C17: a callback that raises during publish does not stop the delivery:
\* publish stays in its loop at the next subscriber with the event still
\* pending, and the error does not leave publish.
C17_RaiseDoesNotStop ==
    [][(Deliver /\ Behaviour(NextListener) = "raise") =>
          /\ Len(delivery') = Len(delivery)
          /\ delivery'[Len(delivery)] =
                [Top EXCEPT !.k = @ + 1, !.invoked = Append(@, NextListener)]
          /\ event_bus' = event_bus
          /\ InList(event_bus'.event_queue, Top.event)]_vars

\* C17 witness: publish has returned after invoking the logging callback
\* right after the raising one, with the event pending
C17_Witness ==
    /\ delivery = <<>>
    /\ \E j \in DOMAIN calls :
          /\ j + 1 \in DOMAIN calls
          /\ Behaviour(calls[j][1]) = "raise"
          /\ Behaviour(calls[j + 1][1]) = "log"
          /\ calls[j + 1][2] = calls[j][2]
          /\ \E k \in DOMAIN event_bus.event_queue : event_bus.event_queue[k].id = calls[j][2]

\* the state the machine would enter on event ev (NoState: no entry)
Target(ev) == state_machine.transitions[<<state_machine.current_state, ev>>]

\* the handler registered for the transition event ev would make
TransitionHandler(ev) ==
    state_machine.transition_handlers[<<state_machine.current_state, Target(ev)>>]

\* C18: handle_event on an event with no (current_state, event) entry in the
\* transition table returns false and changes nothing: current_state and
\* previous_state are unchanged and no handler is invoked.
C18_UnmatchedEvent ==
    [][\A ev \in TaskEvent :
         (HandleEvent(ev) /\ Target(ev) = NoState) =>
            /\ sm_obs'.result = "False"
            /\ state_machine' = state_machine
            /\ sm_obs'.invoked = <<>>]_vars

\* C18 witness: an event was rejected by a machine that has moved before and
\* has a handler registered for its current state
C18_Witness ==
    /\ sm_obs.handled = 2
    /\ sm_obs.result = "False"
    /\ sm_obs.invoked = <<>>
    /\ state_machine.previous_state # NoState
    /\ state_machine.state_handlers[state_machine.current_state] # Absent
    /\ \E ev \in TaskEvent : Target(ev) = NoState

\* C19: when the transition handler registered for (old state, new state)
\* raises, handle_event returns false, current_state and previous_state are
\* unchanged and the entry handler of the new state is not invoked.
C19_TransitionHandlerRaises ==
    [][\A ev \in TaskEvent :
         (HandleEvent(ev) /\ Target(ev) # NoState /\ TransitionHandler(ev) = "raise") =>
            /\ sm_obs'.result = "False"
            /\ state_machine' = state_machine
            /\ sm_obs'.invoked = <<"transition">>]_vars

\* C19 witness: the transition handler raised on the way to a state that has
\* an entry handler, and the machine has not moved
C19_Witness ==
    /\ sm_obs.result = "False"
    /\ sm_obs.invoked = <<"transition">>
    /\ \E ev \in TaskEvent :
          /\ Target(ev) # NoState
          /\ TransitionHandler(ev) = "raise"
          /\ state_machine.state_handlers[Target(ev)] # Absent

\* C20: when the entry handler of the new state raises, the transition stays
\* committed: current_state is the new state, previous_state the old one,
\* and handle_event returns true.
C20_EntryHandlerRaises ==
    [][\A ev \in TaskEvent :
         (HandleEvent(ev) /\ Target(ev) # NoState /\ TransitionHandler(ev) # "raise"
             /\ state_machine.state_handlers[Target(ev)] = "raise") =>
            /\ sm_obs'.result = "True"
            /\ state_machine'.current_state = Target(ev)
            /\ state_machine'.previous_state = state_machine.current_state
            /\ sm_obs'.invoked[Len(sm_obs'.invoked)] = "state"]_vars

\* C20 witness: the machine is in a new state whose entry handler raised
C20_Witness ==
    /\ sm_obs.result = "True"
    /\ sm_obs.invoked = <<"state">>
    /\ state_machine.current_state # "UNKNOWN"
    /\ state_machine.previous_state = "UNKNOWN"
    /\ state_machine.state_handlers[state_machine.current_state] = "raise"

\* the dispatch threads that have been started and have not ended
LiveThreads == {i \in Threads : thr[i].pc # "dead"}

\* C22: start() on a started scheduler spawns no second dispatch loop and
\* changes nothing; stop() on a stopped or never started scheduler changes
\* nothing (it only waits for the thread it stopped before, if any).
C22_StartStopIdempotent ==
    [][/\ (Start /\ running) => UNCHANGED <<sched_vars>>
       /\ (Stop /\ ~running) =>
            UNCHANGED <<now, queue_vars, trig_vars, task_vars, running_tasks, running,
                        scheduler_thread, thr, calls_left>>]_vars

\* C22 witness: a started scheduler with its one dispatch loop executing a task
C22_Witness ==
    /\ running
    /\ ~joining
    /\ Cardinality(LiveThreads) = 1
    /\ scheduler_thread \in LiveThreads
    /\ thr[scheduler_thread].pc = "run"

\* the tasks that have been submitted: queued, or taken by a dispatch thread
Submitted ==
    {task_queue[k].task : k \in DOMAIN task_queue} \cup
    {thr[i].task : i \in {j \in Threads : thr[j].task # NoTask}}

\* C23: get_task_status returns None for a task never submitted and the
\* task's Context from its submission on: every submitted task is in the
\* status registry, and no entry is ever removed from it.
C23_StatusRetained ==
    [][/\ \A t \in Tasks : t \in Submitted' => get_task_status(t)' = {context'[t]}
       /\ \A t \in Tasks : get_task_status(t) # {} => get_task_status(t)' # {}]_vars

C25_FinishedIsTerminal ==
    [][(\E u \in Tasks :
           \/ PauseTask(u)
           \/ ResumeTask(u)
           \/ \E n \in Tasks \cup {NoTask} : InterruptTask(u, n)) =>
         \A t \in Tasks :
            context[t].state \in {"completed", "interrupted", "failed"} =>
               context'[t].state = context[t].state]_vars

\* C26: pause_task and resume_task for an id that is not in the running
\* registry change nothing: no signal, no Context, not the queue.
C26_NotRunningNoOp ==
    [][\A t \in Tasks :
         ((PauseTask(t) \/ ResumeTask(t)) /\ t \notin running_tasks) =>
            UNCHANGED <<task_vars, task_queue, task_contexts, running_tasks, thr>>]_vars

\* C26 witness: both calls of the run were made without effect and a task
\* that was queued meanwhile is running, never paused
C26_Witness ==
    /\ calls_left = 0
    /\ \A t \in Tasks : ~should_pause[t] /\ ~should_stop[t]
    /\ \A t \in Tasks : context[t].pause_time = None /\ context[t].resume_time = None
    /\ \E i \in Threads : thr[i].pc = "run" /\ context[thr[i].task].state = "running"

\* C27: publication order is preserved for synchronous delivery and for batch
\* replay: every callback receives the events it is invoked with in the
\* order in which they were published, which is the order of the pending
\* queue and of the batches.
C27_OrderPreserved ==
    /\ \A j, k \in DOMAIN calls :
          (j < k /\ calls[j][1] = calls[k][1]) => calls[j][2] <= calls[k][2]
    /\ LET all == Flatten(batches) \o event_bus.event_queue
       IN  \A j, k \in DOMAIN all : j < k => all[j].id < all[k].id

\* C28: previous_state is unset exactly when no handle_event call has returned
\* true yet (and then the machine is in its initial state); otherwise
\* (previous_state, current_state) is the (source, target) pair of the last
\* handle_event call that returned true. add_transition, add_state_handler,
\* add_transition_handler and can_transition change neither variable.
C28_LastTransition ==
    [][/\ (state_machine'.previous_state = NoState) <=> (sm_obs'.last = <<>>)
       /\ sm_obs'.last = <<>> => state_machine'.current_state = StateMachine.current_state
       /\ sm_obs'.last # <<>> =>
             <<state_machine'.previous_state, state_machine'.current_state>> = sm_obs'.last
       /\ ((\E from \in PageState, ev \in TaskEvent, to \in PageState : AddTransition(from, ev, to))
            \/ (\E st \in PageState, h \in HandlerKinds : AddStateHandler(st, h))
            \/ (\E from \in PageState, to \in PageState, h \in HandlerKinds :
                   AddTransitionHandler(from, to, h))
            \/ (\E ev \in TaskEvent : CanTransition(ev))) =>
             UNCHANGED <<state_machine.previous_state, state_machine.current_state>>]_vars

\* C28 witness: after two committed transitions the machine is back in its
\* initial state with the other state as previous one, and can_transition
\* has answered for the current state
C28_Witness ==
    /\ sm_obs.handled = 2
    /\ sm_obs.last = <<"MAIN_MENU", "UNKNOWN">>
    /\ state_machine.previous_state = "MAIN_MENU"
    /\ state_machine.current_state = "UNKNOWN"
    /\ sm_obs.can = "False"

\* C30: a trigger predicate that raises is skipped for that iteration only:
\* the predicates registered after it are still evaluated in the same
\* iteration (every raising predicate before the first that returns true is
\* logged, and a predicate that returns true after it and has a cleanup id
\* pauses the running tasks), and the loop goes on to fetch the next task.
C30_RaisingTriggerSkipped ==
    [][\A i \in Threads, outs \in TriggerOutcomes :
         (running /\ LoopHeadWith(i, outs) /\ \E j \in DOMAIN outs : outs[j] = "raises") =>
            /\ thr'[i].pc = "get"
            /\ \A j \in DOMAIN outs :
                  (outs[j] = "raises" /\ \A k \in 1..(j - 1) : outs[k] # "true") =>
                     thr'[i].errors >= Cardinality({k \in 1..j : outs[k] = "raises"})
            /\ \A k \in DOMAIN outs :
                  (outs[k] = "true" /\ k <= Len(cleanup_tasks)
                      /\ \A j \in 1..(k - 1) : outs[j] # "true") =>
                     \A t \in running_tasks : should_pause'[t]]_vars

\* C30 witness: in one iteration the first predicate raised and the second
\* returned true, which paused the task then running; the loop is about to
\* fetch the next task
C30_Witness ==
    /\ resource_triggers = 2
    /\ Len(cleanup_tasks) = 2
    /\ \E i \in Threads :
          /\ thr[i].pc = "get"
          /\ thr[i].errors = 1
          /\ \E t \in running_tasks : should_pause[t] /\ context[t].state = "running"

\* a checkpoint record as a reader sees it: its data reference resolved
View(cp) == [cp EXCEPT !.data = Deref(cp.data)]

\* C21: checkpoints are append-only snapshots. save_checkpoint appends exactly
\* one record holding the progress at capture and the items of the given
\* data; no step (save_progress changing the progress or the live data,
\* another save_checkpoint) changes or removes a record there is;
\* get_latest_checkpoint returns the last record, None when there is none;
\* save_progress(p, d) sets the progress and puts d's items into the live
\* data, so that a checkpoint of the live data taken next holds p and d.
C21_CheckpointsAppendOnly ==
    [][/\ Len(ckpt'.checkpoints) >= Len(ckpt.checkpoints)
       /\ \A n \in DOMAIN ckpt.checkpoints :
             View(ckpt.checkpoints[n])' = View(ckpt.checkpoints[n])
       /\ \A name \in CheckpointNames, data \in DataArgs :
             SaveCheckpoint(name, data) =>
                /\ Len(ckpt'.checkpoints) = Len(ckpt.checkpoints) + 1
                /\ View(ckpt.checkpoints[Len(ckpt.checkpoints)])' =
                      [name |-> name, timestamp |-> now, progress |-> ckpt.progress,
                       data |-> IF data.live THEN dicts.live ELSE data.items]
       /\ \A p \in Progress, data \in SmallDicts :
             SaveProgress(p, data) =>
                /\ ckpt'.progress = p
                /\ \A key \in Keys : data[key] # Absent => dicts'.live[key] = data[key]
       /\ GetLatestCheckpoint =>
             ckpt'.latest = IF ckpt.checkpoints = <<>> THEN 0 ELSE Len(ckpt.checkpoints)]_vars

\* C21 witness: the latest checkpoint, taken of the live data after
\* save_progress(0.5, {k: v}), still holds 0.5 and k -> v after a later
\* save_progress has changed the progress and the live value of k
C21_Witness ==
    /\ ckpt.latest = Len(ckpt.checkpoints)
    /\ ckpt.latest \in DOMAIN ckpt.checkpoints
    /\ View(ckpt.checkpoints[ckpt.latest]).progress = 5
    /\ View(ckpt.checkpoints[ckpt.latest]).data = [EmptyDict EXCEPT !["k"] = "v"]
    /\ ckpt.progress = 10
    /\ dicts.live["k"] = "w"

\* C29: whenever the main loop of a HybridTask has been left (completion,
\* stop, or an error inside an iteration) the cleanup hook and then the
\* result hook are invoked, each once: no other hook runs after the exit and
\* the run ends with exactly <<cleanup, result>>; and every iteration calls
\* check_interruption exactly once, first, before the page detection.
C29_HooksOnExit ==
    /\ hrun.cause # "none" <=> hrun.pc \in {"cleanup", "result", "done"}
    /\ hrun.exits = CASE hrun.pc = "result" -> <<"cleanup">>
                      [] hrun.pc = "done" -> <<"cleanup", "result">>
                      [] OTHER -> <<>>
    /\ hrun.pc \in {"wait", "detect", "process", "logic", "completion"} => hrun.hooks # <<>>
    /\ hrun.hooks # <<>> =>
          /\ hrun.hooks[1] = "check"
          /\ \A n \in DOMAIN hrun.hooks : hrun.hooks[n] = "check" => n = 1

\* C29 witness: the second iteration ended by an error after the detection,
\* and cleanup and result assembly have run
C29_Witness ==
    /\ hrun.pc = "done"
    /\ hrun.cause = "error"
    /\ hrun.iter = 2
    /\ hrun.hooks = <<"check", "detect", "logic">>
    /\ hrun.exits = <<"cleanup", "result">>

\* C31: no reachable state has a Context in state CANCELLED.
C31_NeverCancelled ==
    \A t \in Tasks : context[t].state \in TaskState \ {"cancelled"}

\* C31 witness: one task was stopped while it ran and is INTERRUPTED, the
\* other has finished in another state, and a stop was requested for it too
C31_Witness ==
    \E t, u \in Tasks :
       /\ context[t].state = "interrupted"
       /\ context[u].state \in {"completed", "failed"}
       /\ should_stop[t] /\ should_stop[u]

\* the dispatch threads that can still take a task from the queue without
\* testing _running again
AboutToStart == {i \in Threads : thr[i].pc \in {"get", "register"}}

\* C32: once stop() has been called and start() is not called again, at most
\* one further task is started (only a loop that is already past its test
\* of _running takes one, and there is at most one such loop) and a loop
\* back at its test ends; stop() itself sets no stop or pause signal and
\* removes no queue entry.
C32_StopStartsAtMostOne ==
    [][/\ ~running' => Cardinality(AboutToStart') <= 1
       /\ (~running /\ ~running') =>
             /\ AboutToStart' \subseteq AboutToStart
             /\ \A i \in Threads : (thr[i].pc = "while" /\ Steps(i)) => thr'[i].pc = "dead"
       /\ Stop => UNCHANGED <<should_stop, should_pause, task_queue>>]_vars

\* C33: retry() is bounded by max_retries: over any sequence of retry() calls
\* on one Task the work routine is re-run at most max_retries times, and a
\* retry() call made after that returns None without starting the task.
C33_RetryBounded ==
    [][/\ legacy'.reruns <= max_retries
       /\ (TaskRetry /\ legacy.reruns >= max_retries) =>
             /\ legacy'.returned = "None"
             /\ legacy'.running = legacy.running]_vars

\* C34: every submission is executed exactly once: an entry leaves the queue
\* only when a dispatch loop takes it, and the loop that takes it goes on to
\* execute that entry's task; no entry is lost or skipped.
C34_NoEntryLost ==
    [][/\ task_queue' # task_queue =>
             \/ \E t \in Tasks, d \in Delays : SubmitTask(t, d)
             \/ \E i \in Threads : LoopGet(i)
       /\ \A i \in Threads :
             (LoopGet(i) /\ task_queue' # task_queue) =>
                /\ thr'[i].pc = "register"
                /\ IsInsertOf(task_queue', task_queue, Entry(thr'[i].task, thr'[i].time))]_vars

\* the tasks blocked in the pause wait of check_interruption: the wait loop's
\* condition holds
Blocked ==
    {t \in Tasks : /\ should_pause[t] /\ ~should_stop[t]
                   /\ \E i \in Threads : thr[i].task = t /\ thr[i].pc = "ci_wait"}

\* C35: while a task is PAUSED, blocked inside check_interruption, no queued
\* task is taken from the queue or started, whatever its priority.
C35_PausedBlocksDispatch ==
    [][\A i \in Threads :
         (\E t \in Blocked : context[t].state = "paused") =>
            ~(LoopGet(i) /\ task_queue' # task_queue) /\ ~Register(i) /\ ~Execute(i)]_vars

\* C36: whenever a dispatch loop evaluates the resource triggers the running
\* registry is empty, so a trigger that fires sets no pause signal.
C36_TriggersSeeEmptyRegistry ==
    [][\A i \in Threads :
         (running /\ LoopHead(i)) =>
            /\ running_tasks = {}
            /\ should_pause' = should_pause]_vars

\* C37: a task blocked in the pause wait of check_interruption has Context
\* state PAUSED, and a task whose Context state is PAUSED is in that wait
\* (or on its way out of it, about to call resume).
C37_PausedIffBlocked ==
    /\ \A t \in Blocked : context[t].state = "paused"
    /\ \A t \in Tasks :
          context[t].state = "paused" =>
             \E i \in Threads : thr[i].task = t /\ thr[i].pc \in {"ci_wait", "ci_resume"}

\* C38: in a HybridTask iteration every published event is applied to the
\* state machine once: the machine takes at most one transition in an
\* iteration (an iteration detects at most one page change).
C38_OneTransitionPerIteration == hrun.moves <= 1

\* the ERROR_OCCURRED events published so far
ErrorsPublished ==
    Cardinality({k \in DOMAIN event_bus.event_queue :
                    event_bus.event_queue[k].event_type = "ERROR_OCCURRED"})

\* C39: an error raised inside an iteration never fails the task: the step
\* that raises publishes one ERROR_OCCURRED event and leaves the loop, no
\* further one is published, and execute ends with state COMPLETED and
\* progress 1.0.
C39_ErrorCompletes ==
    [][/\ (hrun.cause = "none" /\ hrun'.cause = "error") =>
             /\ ErrorsPublished' = ErrorsPublished + 1
             /\ hrun'.pc = "cleanup"
       /\ hrun.cause # "none" => ErrorsPublished' = ErrorsPublished
       /\ hrun'.cause # "error" => ErrorsPublished' = 0
       /\ (HRunResult /\ hrun.cause = "error") =>
             /\ hrun'.pc = "done"
             /\ hrun'.state = "completed"
             /\ hrun'.progress = 10]_vars

\* C39 witness: the per-state logic raised in the first iteration, after a
\* page change; one ERROR_OCCURRED event is pending and execute has ended
\* COMPLETED with progress 1.0
C39_Witness ==
    /\ hrun.pc = "done"
    /\ hrun.cause = "error"
    /\ hrun.iter = 1
    /\ hrun.hooks = <<"check", "detect", "logic">>
    /\ hrun.moves >= 1
    /\ ErrorsPublished = 1
    /\ hrun.state = "completed"
    /\ hrun.progress = 10

====
